---- MODULE Spec2Model ----
(***************************************************************************)
(* One run of main() of the OFAC background-check automation:              *)
(* connect, fetch the persons, categorize, pre-checks (bulk insert),       *)
(* browser searches (one insert per searched person), final report,        *)
(* disconnect.                                                             *)
(*                                                                         *)
(* Every call that leaves the process (database driver, browser driver,    *)
(* file system) is a nondeterministic choice between returning and         *)
(* raising; what happens to a raised exception is what the try/except      *)
(* blocks of the source do with it.                                        *)
(*                                                                         *)
(* The results table holds the rows written by this run (it starts empty), *)
(* and the fetched rows have distinct idPersona values (the master table   *)
(* is keyed by idPersona, so the LEFT JOIN yields one row per person).     *)
(***************************************************************************)
EXTENDS Integers, Sequences, FiniteSets, TLC

\* ---- bounds of the model ----
MaxPersons == 2
MaxTextLen == 2
\* calls of close() a client of OfacScraper makes on one session
MaxCloseCalls == 2

\* ---- Python values ----
\* a nullable value is a set with at most one element: None is {}, v is {v}
None == {}
Some(v) == {v}
Val(o) == CHOOSE v \in o : TRUE

\* Python truthiness of a nullable string: None and "" are falsy
Falsy(o) == o = None \/ o = Some("")

\* ---- config/settings.py ----
STATUS_OK == "OK"
STATUS_ERROR == "NOK"
STATUS_INCOMPLETE == "Informacion incompleta"
STATUS_NO_MASTER_RECORD == "No cruza con maestra"

\* ---- outcomes of the external calls ----
\* a storage write: execute+commit succeeded; execute or commit raised and
\* rollback() returned; execute or commit raised and rollback() raised too
COMMITTED == "committed"
ROLLED_BACK == "rolled_back"
ROLLBACK_RAISED == "rollback_raised"
WriteOutcomes == {COMMITTED, ROLLED_BACK, ROLLBACK_RAISED}
\* insert_results_bulk called with an empty list: it returns before any statement
NO_WRITE == "no_write"

VARIABLES
    pc,             \* position of main()
    db_manager,     \* "none" | "connected" | "disconnected"
    all_persons,    \* main: all_persons
    search_queue,   \* main: search_queue
    incomplete,     \* main: incomplete
    no_master,      \* main: no_master
    idx,            \* run_ofac_searches: position of `person` in search_queue
    result_count,   \* run_ofac_searches: result_count
    scraper,        \* browser session: "unopened" | "open" | "closed" | "failed"
    results,        \* rows of the results table, in insertion order
    screenshots,    \* person ids whose screenshot file was written
    report,         \* rows of the Excel report written, None when no file
    raised,         \* an exception reached the except clause of main()
    trace,          \* history: the calls made so far, in order
    form,           \* the search form of the page: "clean" | "filled" | "gone"
    lastSearch,     \* history: what the page did in the search_person call
                    \* whose result is about to be stored
    preCheckResults \* history: the results table when process_pre_checks ended

vars == <<pc, db_manager, all_persons, search_queue, incomplete, no_master,
          idx, result_count, scraper, results, screenshots, report, raised,
          trace, form, lastSearch, preCheckResults>>

\* one call in the history: operation, person id (0 when none), outcome
\* (1 for a call whose outcome the program neither sees nor stores)
Ev(op, id, out) == [op |-> op, id |-> id, out |-> out]

\* ---- database contents the run can meet ----
\* a row of fetch_persons_to_process: LEFT JOIN, so a person without master
\* row has idMaestra, direccion and pais NULL
NameOf(i) == <<"nombre", i>>
Addresses == {None, Some(""), Some("Av 1")}
Countries == {None, Some(""), Some("Chile")}
MasterRows == [direccion : Addresses, pais : Countries]
JoinedRows(i) ==
    {[idPersona |-> i, nombrePersona |-> NameOf(i), idMaestra |-> None,
      direccion |-> None, pais |-> None]}
    \cup
    {[idPersona |-> i, nombrePersona |-> NameOf(i), idMaestra |-> Some(i),
      direccion |-> m.direccion, pais |-> m.pais] : m \in MasterRows}
PersonLists ==
    UNION {{f \in [1..n -> UNION {JoinedRows(i) : i \in 1..n}] :
               \A i \in 1..n : f[i].idPersona = i} : n \in 0..MaxPersons}

\* any person records at all (inputs of categorize_persons as a function)
AnyRows(i) ==
    [idPersona : {i}, nombrePersona : {NameOf(i)}, idMaestra : {None, Some(i)},
     direccion : Addresses, pais : Countries]
AnyPersonLists ==
    UNION {{f \in [1..n -> UNION {AnyRows(i) : i \in 1..n}] :
               \A i \in 1..n : f[i].idPersona = i} : n \in 0..MaxPersons}

\* ---- main.py: categorize_persons ----
\* variant: the completeness test made before the master-link test
CategoryOfIncompleteFirst(person) ==
    IF Falsy(person.direccion) \/ Falsy(person.pais) THEN "incomplete"
    ELSE IF person.idMaestra = None THEN "no_master"
    ELSE "search"

\* variant: only the address tested for completeness
CategoryOfAddressOnly(person) ==
    IF person.idMaestra = None THEN "no_master"
    ELSE IF Falsy(person.direccion) THEN "incomplete"
    ELSE "search"

CategoryOf(person) ==
    IF person.idMaestra = None THEN "no_master"
    ELSE IF Falsy(person.direccion) \/ Falsy(person.pais) THEN "incomplete"
    ELSE "search"

\* the for loop: the three lists after the first n persons
RECURSIVE CategorizeLoop(_, _)
CategorizeLoop(persons, n) ==
    IF n = 0
    THEN [search_queue |-> <<>>, incomplete |-> <<>>, no_master |-> <<>>]
    ELSE LET acc == CategorizeLoop(persons, n - 1)
             person == persons[n]
             cat == CategoryOf(person)
         IN  IF cat = "no_master"
             THEN [acc EXCEPT !.no_master = Append(@, person)]
             ELSE IF cat = "incomplete"
             THEN [acc EXCEPT !.incomplete = Append(@, person)]
             ELSE [acc EXCEPT !.search_queue = Append(@, person)]

categorize_persons(persons) == CategorizeLoop(persons, Len(persons))

\* ---- database/db_manager.py ----
\* a row of the results table
ResultRow(id, name, pais, count, status) ==
    [idPersona |-> id, nombrePersona |-> name, pais |-> pais,
     cantidadDeResultados |-> count, estadoTransaccion |-> status]

\* variant: the statement executed twice before the commit
InsertRowsTwice(table, rows) == (table \o rows) \o rows

\* the table after an INSERT of rows that was committed
InsertRows(table, rows) == table \o rows

\* variant: an autocommit connection, the first row kept when a later one fails
insert_results_bulk_autocommit(table, results_data, outcome) ==
    IF results_data = <<>> THEN table
    ELSE IF outcome = COMMITTED THEN InsertRows(table, results_data)
    ELSE InsertRows(table, SubSeq(results_data, 1, 1))

\* what a call of insert_results_bulk can do with the statement
BulkOutcomes(results_data) ==
    IF results_data = <<>> THEN {NO_WRITE} ELSE WriteOutcomes

insert_results_bulk(table, results_data, outcome) ==
    IF results_data = <<>> THEN table
    ELSE IF outcome = COMMITTED THEN InsertRows(table, results_data)
    ELSE table

insert_single_result(table, person_data, count, status, outcome) ==
    IF outcome = COMMITTED
    THEN InsertRows(table, <<ResultRow(person_data.idPersona,
                                       person_data.nombrePersona,
                                       person_data.pais, count, status)>>)
    ELSE table

fetch_incomplete_records_for_report(table, ok) ==
    IF ok
    THEN LET rows == SelectSeq(table,
                       LAMBDA r : r.estadoTransaccion = STATUS_INCOMPLETE)
         IN  [i \in 1..Len(rows) |->
                [idPersona |-> rows[i].idPersona,
                 nombrePersona |-> rows[i].nombrePersona,
                 pais |-> rows[i].pais,
                 estadoTransaccion |-> rows[i].estadoTransaccion]]
    ELSE <<>>

\* ---- scraping/ofac_scraper.py ----
SEARCH_ERROR == -1
\* the browser interactions of search_person that can raise: get, wait for
\* txtLastName, find txtAddress, select the country, click, wait for lblResults
NumSearchSteps == 6

Digits == <<"0", "1", "2", "3", "4", "5", "6", "7", "8", "9">>
IsDigit(c) == \E d \in 1..10 : Digits[d] = c
DigitVal(c) == (CHOOSE d \in 1..10 : Digits[d] = c) - 1

\* int(): decimal value of a run of digits
RECURSIVE IntOf(_)
IntOf(run) ==
    IF run = <<>> THEN 0
    ELSE 10 * IntOf(SubSeq(run, 1, Len(run) - 1)) + DigitVal(run[Len(run)])

\* re.search(r'(\d+)'): the leftmost digit, then as many digits as follow
RECURSIVE RunEnd(_, _)
RunEnd(text, j) ==
    IF j < Len(text) /\ IsDigit(text[j + 1]) THEN RunEnd(text, j + 1) ELSE j

\* variant: a text without digits reported with the error sentinel
parse_results_no_match_is_error(result_text) ==
    IF \E i \in 1..Len(result_text) : IsDigit(result_text[i])
    THEN LET s == CHOOSE i \in 1..Len(result_text) :
                      /\ IsDigit(result_text[i])
                      /\ \A k \in 1..(i - 1) : ~IsDigit(result_text[k])
         IN  IntOf(SubSeq(result_text, s, RunEnd(result_text, s)))
    ELSE SEARCH_ERROR

parse_results(result_text) ==
    IF \E i \in 1..Len(result_text) : IsDigit(result_text[i])
    THEN LET s == CHOOSE i \in 1..Len(result_text) :
                      /\ IsDigit(result_text[i])
                      /\ \A k \in 1..(i - 1) : ~IsDigit(result_text[k])
         IN  IntOf(SubSeq(result_text, s, RunEnd(result_text, s)))
    ELSE 0

\* what the page does in one search: failStep = 0 when no interaction raised
\* and text is the text of lblResults; failStep = k when the k-th interaction
\* raised, and then no text is read
TextChars == {"0", "3", "x"}
Texts == UNION {[1..n -> TextChars] : n \in 0..MaxTextLen}
SearchInputs ==
    [failStep : {0}, text : Texts]
    \cup [failStep : 1..NumSearchSteps, text : {<<>>}]

NoSearch == [failStep |-> 0, text |-> <<>>]

search_person(page) ==
    IF page.failStep # 0 THEN SEARCH_ERROR ELSE parse_results(page.text)

\* ---- main.py: process_pre_checks ----
IncompleteRecord(person) ==
    ResultRow(person.idPersona, person.nombrePersona, person.pais, None,
              STATUS_INCOMPLETE)
\* variant: the person's own country copied into the no-master record
NoMasterRecordKeepsCountry(person) ==
    ResultRow(person.idPersona, person.nombrePersona, person.pais, None,
              STATUS_NO_MASTER_RECORD)
NoMasterRecord(person) ==
    ResultRow(person.idPersona, person.nombrePersona, None, None,
              STATUS_NO_MASTER_RECORD)
BulkData(inc, nm) ==
    [i \in 1..Len(inc) |-> IncompleteRecord(inc[i])]
    \o [i \in 1..Len(nm) |-> NoMasterRecord(nm[i])]

\* variant: the bulk insert called whatever bulk_data holds
ShouldBulkInsertAlways(bulk_data) == TRUE
\* process_pre_checks: `if bulk_data:`
ShouldBulkInsert(bulk_data) == bulk_data # <<>>

\* ---- main.py: run_ofac_searches, the branch on result_count ----
\* variant: the wrong status constant on the error branch
StatusOfErrorAsIncomplete(count) ==
    IF count > -1 THEN STATUS_OK ELSE STATUS_INCOMPLETE
StatusOf(count) == IF count > -1 THEN STATUS_OK ELSE STATUS_ERROR
\* variant: result_count passed to the insert on the error branch too
CountToStoreRaw(count) == Some(count)
CountToStore(count) == IF count > -1 THEN Some(count) ELSE None
\* variant: a screenshot for every successful search
WantsScreenshotNonNegative(count) == count > -1
WantsScreenshot(count) == count > -1 /\ count > 0

\* variant: the failure to open re-raised to main()
PcAfterOpenFailureRaise == "finally"
\* where main() continues after `return` in the except clause around OfacScraper()
PcAfterOpenFailure == "report"

Init ==
    /\ pc = "start"
    /\ db_manager = "none"
    /\ all_persons = <<>>
    /\ search_queue = <<>>
    /\ incomplete = <<>>
    /\ no_master = <<>>
    /\ idx = 0
    /\ result_count = 0
    /\ scraper = "unopened"
    /\ results = <<>>
    /\ screenshots = {}
    /\ report = None
    /\ raised = FALSE
    /\ trace = <<>>
    /\ form = "clean"
    /\ lastSearch = NoSearch
    /\ preCheckResults = <<>>

\* variant: disconnect() as the last statement of the try body, no finally
PcAfterExceptionNoFinally == "done"
\* main: an exception leaving a phase is caught by `except Exception`, and the
\* finally clause runs next
PcAfterException == "finally"

\* variant: the connection error swallowed, the run going on
PcAfterConnectFailureGoOn == "fetch"
\* DatabaseManager.__init__ re-raises: main() goes to its except and finally
PcAfterConnectFailure == "finally"

\* main: db_manager = DatabaseManager()
Connect ==
    /\ pc = "start"
    /\ \E ok \in BOOLEAN :
        /\ db_manager' = IF ok THEN "connected" ELSE "none"
        /\ raised' = ~ok
        /\ pc' = IF ok THEN "fetch" ELSE PcAfterConnectFailure
        /\ trace' = Append(trace, Ev("connect", 0, IF ok THEN 1 ELSE 0))
    /\ UNCHANGED <<all_persons, search_queue, incomplete, no_master, idx,
                   result_count, scraper, results, screenshots, report,
                   form, lastSearch, preCheckResults>>

\* main: all_persons = db_manager.fetch_persons_to_process(); if not all_persons: return
fetch_persons_to_process ==
    /\ pc = "fetch"
    /\ \E ok \in BOOLEAN :
       \E rows \in PersonLists :
        /\ ok \/ rows = <<>>
        /\ all_persons' = rows
        /\ pc' = IF rows = <<>> THEN "finally" ELSE "categorize"
        /\ trace' = Append(trace, Ev("fetch_persons", 0, IF ok THEN 1 ELSE 0))
    /\ UNCHANGED <<db_manager, search_queue, incomplete, no_master, idx,
                   result_count, scraper, results, screenshots, report,
                   raised, form, lastSearch, preCheckResults>>

\* main: search_queue, incomplete, no_master = categorize_persons(all_persons)
Categorize ==
    /\ pc = "categorize"
    /\ LET c == categorize_persons(all_persons)
       IN  /\ search_queue' = c.search_queue
           /\ incomplete' = c.incomplete
           /\ no_master' = c.no_master
    /\ pc' = "prechecks"
    /\ trace' = Append(trace, Ev("categorize", 0, 1))
    /\ UNCHANGED <<db_manager, all_persons, idx, result_count, scraper,
                   results, screenshots, report, raised, form, lastSearch,
                   preCheckResults>>

\* main: process_pre_checks(db_manager, incomplete, no_master)
process_pre_checks ==
    /\ pc = "prechecks"
    /\ LET bulk_data == BulkData(incomplete, no_master)
       IN  IF ~ShouldBulkInsert(bulk_data)
           THEN /\ pc' = "searches"
                /\ preCheckResults' = results
                /\ UNCHANGED <<results, raised, trace>>
           ELSE \E outcome \in BulkOutcomes(bulk_data) :
                /\ results' = insert_results_bulk(results, bulk_data, outcome)
                /\ preCheckResults' = results'
                /\ raised' = (outcome = ROLLBACK_RAISED)
                /\ pc' = IF outcome = ROLLBACK_RAISED THEN PcAfterException
                         ELSE "searches"
                /\ trace' = Append(trace,
                                   [op |-> "insert_bulk", id |-> 0,
                                    out |-> outcome, rows |-> bulk_data])
    /\ UNCHANGED <<db_manager, all_persons, search_queue, incomplete,
                   no_master, idx, result_count, scraper, screenshots, report,
                   form, lastSearch>>

\* run_ofac_searches: the empty-queue return, then scraper = OfacScraper()
OpenSession ==
    /\ pc = "searches"
    /\ IF search_queue = <<>>
       THEN /\ pc' = "report"
            /\ UNCHANGED <<scraper, idx, trace>>
       ELSE \E ok \in BOOLEAN :
            /\ scraper' = IF ok THEN "open" ELSE "failed"
            /\ idx' = IF ok THEN 1 ELSE idx
            /\ pc' = IF ok THEN "search" ELSE PcAfterOpenFailure
            /\ trace' = Append(trace, Ev("open", 0, IF ok THEN 1 ELSE 0))
    /\ UNCHANGED <<db_manager, all_persons, search_queue, incomplete,
                   no_master, result_count, results, screenshots, report,
                   raised, form, lastSearch, preCheckResults>>

\* run_ofac_searches: result_count = scraper.search_person(...)
SearchPerson ==
    /\ pc = "search"
    /\ \E page \in SearchInputs :
        /\ result_count' = search_person(page)
        /\ lastSearch' = page
        /\ trace' = Append(trace, Ev("search", search_queue[idx].idPersona,
                                     search_person(page)))
    /\ form' = "filled"
    /\ pc' = "insert"
    /\ UNCHANGED <<db_manager, all_persons, search_queue, incomplete,
                   no_master, idx, scraper, results, screenshots, report,
                   raised, preCheckResults>>

\* run_ofac_searches: db_manager.insert_single_result(person, count, status)
InsertResult ==
    /\ pc = "insert"
    /\ \E outcome \in WriteOutcomes :
        /\ results' = insert_single_result(results, search_queue[idx],
                                           CountToStore(result_count),
                                           StatusOf(result_count), outcome)
        /\ raised' = (outcome = ROLLBACK_RAISED)
        /\ pc' = IF outcome = ROLLBACK_RAISED THEN PcAfterException
                 ELSE IF WantsScreenshot(result_count) THEN "screenshot"
                 ELSE "reset"
        /\ trace' = Append(trace, Ev("insert_single",
                                     search_queue[idx].idPersona, outcome))
    /\ lastSearch' = NoSearch
    /\ UNCHANGED <<db_manager, all_persons, search_queue, incomplete,
                   no_master, idx, result_count, scraper, screenshots, report,
                   form, preCheckResults>>

\* run_ofac_searches: scraper.take_screenshot(person_id)
TakeScreenshot ==
    /\ pc = "screenshot"
    /\ \E ok \in BOOLEAN :
        /\ screenshots' = IF ok
                          THEN screenshots \cup {search_queue[idx].idPersona}
                          ELSE screenshots
        /\ trace' = Append(trace, Ev("screenshot",
                                     search_queue[idx].idPersona,
                                     IF ok THEN 1 ELSE 0))
    /\ pc' = "reset"
    /\ UNCHANGED <<db_manager, all_persons, search_queue, incomplete,
                   no_master, idx, result_count, scraper, results, report,
                   raised, form, lastSearch, preCheckResults>>

\* variant: scraper.close() indented into the loop body
LoopNextCloseInLoop(at, i, n) ==
    IF at = "reset" THEN [pc |-> "close", idx |-> i]
    ELSE IF i < n THEN [pc |-> "search", idx |-> i + 1]
    ELSE [pc |-> "report", idx |-> i]

\* run_ofac_searches: where the for loop goes after reset_search_form() of the
\* i-th of n persons, and where the function goes after scraper.close()
LoopNext(at, i, n) ==
    IF at = "reset"
    THEN IF i < n THEN [pc |-> "search", idx |-> i + 1]
         ELSE [pc |-> "close", idx |-> i]
    ELSE [pc |-> "report", idx |-> i]

\* run_ofac_searches: scraper.reset_search_form(), then the next person
ResetForm ==
    /\ pc = "reset"
    /\ \E ok \in BOOLEAN :
        form' = IF ok THEN "clean" ELSE form
    /\ trace' = Append(trace, Ev("reset", search_queue[idx].idPersona, 1))
    /\ idx' = LoopNext("reset", idx, Len(search_queue)).idx
    /\ pc' = LoopNext("reset", idx, Len(search_queue)).pc
    /\ UNCHANGED <<db_manager, all_persons, search_queue, incomplete,
                   no_master, result_count, scraper, results, screenshots,
                   report, raised, lastSearch, preCheckResults>>

\* OfacScraper.close: `if self.driver:`; self.driver is set by a successful
\* __init__ and never cleared, so it is truthy after quit() as well
close_quits(session) == session \in {"open", "closed"}

\* OfacScraper.close: the session and the history after a call whose
\* driver.quit() returned (ok) or raised
close(session, history, ok) ==
    [scraper |-> IF close_quits(session) /\ ok THEN "closed" ELSE session,
     trace |-> Append(history, Ev("close", 0, IF ok THEN 1 ELSE 0))
               \o (IF close_quits(session)
                   THEN <<Ev("quit", 0, IF ok THEN 1 ELSE 0)>> ELSE <<>>)]

\* OfacScraper.close: a driver.quit() that returned has ended the browser, and
\* the page with its form is gone
form_after_close(session, page, ok) ==
    IF close_quits(session) /\ ok THEN "gone" ELSE page

\* run_ofac_searches: scraper.close(); driver.quit() is not guarded
CloseSession ==
    /\ pc = "close"
    /\ \E ok \in BOOLEAN :
        /\ scraper' = close(scraper, trace, ok).scraper
        /\ trace' = close(scraper, trace, ok).trace
        /\ raised' = ~ok
        /\ pc' = IF ok THEN LoopNext("close", idx, Len(search_queue)).pc
                 ELSE PcAfterException
        /\ idx' = IF ok THEN LoopNext("close", idx, Len(search_queue)).idx
                  ELSE idx
        /\ form' = form_after_close(scraper, form, ok)
    /\ UNCHANGED <<db_manager, all_persons, search_queue, incomplete,
                   no_master, result_count, results, screenshots, report,
                   lastSearch, preCheckResults>>

\* main: generate_final_reports(db_manager)
generate_final_reports ==
    /\ pc = "report"
    /\ \E fetchOk \in BOOLEAN :
       \E renderOk \in BOOLEAN :
        LET records == fetch_incomplete_records_for_report(results, fetchOk)
        IN  /\ report' = IF records # <<>> /\ renderOk THEN Some(records)
                         ELSE None
            /\ trace' = Append(trace,
                               [op |-> "report", id |-> 0,
                                out |-> IF fetchOk THEN 1 ELSE 0,
                                rows |-> records])
    /\ pc' = "finally"
    /\ UNCHANGED <<db_manager, all_persons, search_queue, incomplete,
                   no_master, idx, result_count, scraper, results,
                   screenshots, raised, form, lastSearch, preCheckResults>>

\* main: `if db_manager:` in the finally clause
ShouldDisconnect(db) == db # "none"

\* DatabaseManager.disconnect: cursor.close() and conn.close() are not
\* guarded; when the first raises the second is not reached
DISCONNECTED == "closed"
CURSOR_CLOSE_RAISED == "cursor_close_raised"
CONN_CLOSE_RAISED == "conn_close_raised"
DisconnectOutcomes == {DISCONNECTED, CURSOR_CLOSE_RAISED, CONN_CLOSE_RAISED}

\* DatabaseManager.disconnect: the connection after the call
disconnect(db, outcome) ==
    IF outcome = DISCONNECTED THEN "disconnected" ELSE db

\* main: finally: if db_manager: db_manager.disconnect(); an exception of
\* disconnect() leaves main(), nothing of main() runs after it
Disconnect ==
    /\ pc = "finally"
    /\ IF ShouldDisconnect(db_manager)
       THEN \E outcome \in DisconnectOutcomes :
            /\ db_manager' = disconnect(db_manager, outcome)
            /\ trace' = Append(trace,
                               Ev("disconnect", 0,
                                  IF outcome = DISCONNECTED THEN 1 ELSE 0))
       ELSE UNCHANGED <<db_manager, trace>>
    /\ pc' = "done"
    /\ UNCHANGED <<all_persons, search_queue, incomplete, no_master, idx,
                   result_count, scraper, results, screenshots, report,
                   raised, form, lastSearch, preCheckResults>>

Next ==
    \/ Connect
    \/ fetch_persons_to_process
    \/ Categorize
    \/ process_pre_checks
    \/ OpenSession
    \/ SearchPerson
    \/ InsertResult
    \/ TakeScreenshot
    \/ ResetForm
    \/ CloseSession
    \/ generate_final_reports
    \/ Disconnect

Spec == Init /\ [][Next]_vars

\* categorize_persons applied to any sequence of person records
CategorizeInit ==
    /\ pc = "categorize"
    /\ db_manager = "connected"
    /\ all_persons \in AnyPersonLists
    /\ search_queue = <<>>
    /\ incomplete = <<>>
    /\ no_master = <<>>
    /\ idx = 0
    /\ result_count = 0
    /\ scraper = "unopened"
    /\ results = <<>>
    /\ screenshots = {}
    /\ report = None
    /\ raised = FALSE
    /\ trace = <<>>
    /\ form = "clean"
    /\ lastSearch = NoSearch
    /\ preCheckResults = <<>>

CategorizeSpec == CategorizeInit /\ [][Categorize]_vars

\* ---- OfacScraper used by any client: its methods called in any order ----
\* a session that was quit answers no command: every interaction raises
PagesOf(session) ==
    IF session = "open" THEN SearchInputs
    ELSE {[failStep |-> 1, text |-> <<>>]}

SessionInit ==
    /\ pc = "session"
    /\ db_manager = "none"
    /\ all_persons = <<>>
    /\ search_queue = <<>>
    /\ incomplete = <<>>
    /\ no_master = <<>>
    /\ idx = 0
    /\ result_count = 0
    /\ scraper = "unopened"
    /\ results = <<>>
    /\ screenshots = {}
    /\ report = None
    /\ raised = FALSE
    /\ trace = <<>>
    /\ form = "clean"
    /\ lastSearch = NoSearch
    /\ preCheckResults = <<>>

\* OfacScraper(): __init__ returns or raises
ApiOpen ==
    /\ pc = "session"
    /\ scraper = "unopened"
    /\ \E ok \in BOOLEAN :
        /\ scraper' = IF ok THEN "open" ELSE "failed"
        /\ raised' = ~ok
        /\ trace' = Append(trace, Ev("open", 0, IF ok THEN 1 ELSE 0))
    /\ UNCHANGED <<pc, db_manager, all_persons, search_queue, incomplete,
                   no_master, idx, result_count, results, screenshots, report,
                   form, lastSearch, preCheckResults>>

\* scraper.search_person(...)
ApiSearch ==
    /\ pc = "session"
    /\ scraper \in {"open", "closed"}
    /\ \E page \in PagesOf(scraper) :
        /\ result_count' = search_person(page)
        /\ lastSearch' = page
    /\ form' = IF scraper = "open" THEN "filled" ELSE form
    /\ UNCHANGED <<pc, db_manager, all_persons, search_queue, incomplete,
                   no_master, idx, scraper, results, screenshots, report,
                   raised, trace, preCheckResults>>

\* scraper.take_screenshot(person_id)
ApiScreenshot ==
    /\ pc = "session"
    /\ scraper \in {"open", "closed"}
    /\ \E person_id \in 1..MaxPersons :
       \E ok \in BOOLEAN :
        screenshots' = IF ok /\ scraper = "open"
                       THEN screenshots \cup {person_id} ELSE screenshots
    /\ UNCHANGED <<pc, db_manager, all_persons, search_queue, incomplete,
                   no_master, idx, result_count, scraper, results, report,
                   raised, trace, form, lastSearch, preCheckResults>>

\* scraper.reset_search_form()
ApiReset ==
    /\ pc = "session"
    /\ scraper \in {"open", "closed"}
    /\ \E ok \in BOOLEAN :
        form' = IF ok /\ scraper = "open" THEN "clean" ELSE form
    /\ UNCHANGED <<pc, db_manager, all_persons, search_queue, incomplete,
                   no_master, idx, result_count, scraper, results,
                   screenshots, report, raised, trace, lastSearch,
                   preCheckResults>>

\* scraper.close()
ApiClose ==
    /\ pc = "session"
    /\ scraper \in {"open", "closed"}
    /\ Cardinality({i \in DOMAIN trace : trace[i].op = "close"})
         < MaxCloseCalls
    /\ \E ok \in BOOLEAN :
        /\ scraper' = close(scraper, trace, ok).scraper
        /\ trace' = close(scraper, trace, ok).trace
        /\ raised' = ~ok
        /\ form' = form_after_close(scraper, form, ok)
    /\ UNCHANGED <<pc, db_manager, all_persons, search_queue, incomplete,
                   no_master, idx, result_count, results, screenshots, report,
                   lastSearch, preCheckResults>>

SessionNext == ApiOpen \/ ApiSearch \/ ApiScreenshot \/ ApiReset \/ ApiClose
SessionSpec == SessionInit /\ [][SessionNext]_vars

\* process_pre_checks applied to the lists categorize_persons makes of any
\* sequence of person records
PreCheckNext == Categorize \/ process_pre_checks
PreCheckSpec == CategorizeInit /\ [][PreCheckNext]_vars

\* ---- reading the history ----
Calls(op) == {i \in DOMAIN trace : trace[i].op = op}
CallsFor(op, id) == {i \in Calls(op) : trace[i].id = id}
Range(seq) == {seq[i] : i \in DOMAIN seq}
IsPrefix(s, t) == Len(s) <= Len(t) /\ SubSeq(t, 1, Len(s)) = s
FetchedIds == {all_persons[i].idPersona : i \in DOMAIN all_persons}
RowsOf(p) == {k \in DOMAIN results : results[k].idPersona = p}
Connected == db_manager # "none"
SessionOpened == \E i \in Calls("open") : trace[i].out = 1
OpenFailed == \E i \in Calls("open") : trace[i].out = 0
SearchPhaseOver == pc \in {"report", "finally", "done"}
ReportAttempted == Calls("report") # {}
\* a storage write carrying a row of person p was attempted / was committed
WriteAttempted(p) ==
    \E i \in DOMAIN trace :
        \/ trace[i].op = "insert_single" /\ trace[i].id = p
        \/ /\ trace[i].op = "insert_bulk"
           /\ \E k \in DOMAIN trace[i].rows : trace[i].rows[k].idPersona = p
WriteCommitted(p) ==
    \E i \in DOMAIN trace :
        \/ /\ trace[i].op = "insert_single"
           /\ trace[i].id = p
           /\ trace[i].out = COMMITTED
        \/ /\ trace[i].op = "insert_bulk"
           /\ trace[i].out = COMMITTED
           /\ \E k \in DOMAIN trace[i].rows : trace[i].rows[k].idPersona = p

\* C1 as stated: at the end of a run every fetched person has exactly one row
\* in the results table, whatever the outcomes of the browser and of the
\* storage writes, and the rows written by the pre-checks are still there.
C1_ExactlyOneRowPerPerson ==
    /\ IsPrefix(preCheckResults, results)
    /\ pc = "done" =>
         \A p \in FetchedIds : Cardinality(RowsOf(p)) = 1

\* C1 amended: a fetched person never has two rows; the person has one row
\* exactly when the write carrying it was committed and none otherwise; a run
\* that ends without an exception and without a failed session open has
\* attempted a write for every fetched person; and no step removes or changes
\* a row of the table.
C1_RowState ==
    /\ \A k \in DOMAIN results : results[k].idPersona \in FetchedIds
    /\ \A p \in FetchedIds :
         Cardinality(RowsOf(p)) = IF WriteCommitted(p) THEN 1 ELSE 0
    /\ (pc = "done" /\ ~raised /\ scraper # "failed") =>
         \A p \in FetchedIds : WriteAttempted(p)
C1_OneRowPerCommittedWrite ==
    []C1_RowState /\ [][IsPrefix(results, results')]_vars

C1_Witness ==
    /\ pc = "done"
    /\ Len(all_persons) = 2
    /\ Len(results) = 2
    /\ \E k \in DOMAIN results : results[k].estadoTransaccion = STATUS_OK
    /\ \E k \in DOMAIN results :
         results[k].estadoTransaccion = STATUS_NO_MASTER_RECORD

\* C2: once the browser session has been opened, close() has been called
\* exactly once when the search phase is over, on every path out of the loop.
C2_SessionClosedExactlyOnce ==
    /\ Cardinality(Calls("close")) <= 1
    /\ (SessionOpened /\ SearchPhaseOver) => Cardinality(Calls("close")) = 1

\* C3: every search_person call is followed by exactly one reset_search_form
\* call for the same person, before the next search_person call and before
\* the search phase ends.
C3_ResetOncePerSearch ==
    \A i \in Calls("search") :
        LET later == {j \in Calls("search") : j > i}
            upto == IF later = {} THEN Len(trace) + 1
                    ELSE CHOOSE j \in later : \A k \in later : j <= k
            resets == {r \in CallsFor("reset", trace[i].id) : i < r /\ r < upto}
        IN  /\ Cardinality(resets) <= 1
            /\ (later # {} \/ SearchPhaseOver) => Cardinality(resets) = 1

\* C4: take_screenshot is called for a person only if a row with a strictly
\* positive count is in the results table for that person, and once the search
\* phase is over it has been called for every person with such a row.
C4_ScreenshotIffPositiveRow ==
    \A p \in FetchedIds :
        LET positive == \E k \in RowsOf(p) :
                            /\ results[k].cantidadDeResultados # None
                            /\ Val(results[k].cantidadDeResultados) > 0
        IN  /\ CallsFor("screenshot", p) # {} => positive
            /\ (SearchPhaseOver /\ positive) => CallsFor("screenshot", p) # {}

\* C5: a run that connected to the database has attempted the reporting phase
\* by the time it ends, whatever the fetch returned and whatever failed.
C5_ReportingAlwaysAttempted ==
    (pc = "done" /\ Connected) => ReportAttempted

\* C6: a run whose fetched persons contain no searchable person never opens the
\* browser session and has executed the reporting phase when it ends.
C6_EmptyQueueSkipsBrowserAndReports ==
    (/\ Connected
     /\ pc \notin {"start", "fetch"}
     /\ \A i \in DOMAIN all_persons : CategoryOf(all_persons[i]) # "search")
    => /\ scraper = "unopened"
       /\ Calls("open") = {}
       /\ pc = "done" => ReportAttempted

\* C7: after a failed session open there is one open call and no search,
\* screenshot, reset, close or single insert, the results table is the one the
\* pre-checks left, no exception reaches main(), and the run goes on to the
\* reporting phase.
C7_OpenFailureSkipsSearchPhase ==
    OpenFailed =>
        /\ Cardinality(Calls("open")) = 1
        /\ Calls("search") = {}
        /\ Calls("screenshot") = {}
        /\ Calls("reset") = {}
        /\ Calls("close") = {}
        /\ Calls("insert_single") = {}
        /\ results = preCheckResults
        /\ ~raised
        /\ pc \in {"report", "finally", "done"}
        /\ pc \in {"finally", "done"} => ReportAttempted

C7_Witness ==
    /\ OpenFailed
    /\ pc = "done"
    /\ ReportAttempted
    /\ results # <<>>

\* C8: search_person returns -1 when an interaction failed and a non-negative
\* count otherwise, 0 for a results text without digits: the result is
\* negative exactly when the search failed.
C8_SentinelIffSearchFailed ==
    pc = "insert" =>
        LET failed == lastSearch.failStep # 0
            text == lastSearch.text
            noDigits == \A i \in DOMAIN text :
                            text[i] \notin {"0", "1", "2", "3", "4", "5", "6",
                                            "7", "8", "9"}
        IN  /\ failed => result_count = -1
            /\ ~failed => result_count >= 0
            /\ (~failed /\ noDigits) => result_count = 0
            /\ result_count < 0 <=> failed

C8_Witness ==
    /\ pc = "insert"
    /\ lastSearch.failStep = 0
    /\ lastSearch.text = <<"x", "x">>
    /\ result_count = 0
    /\ \E i \in Calls("search") : trace[i].out = -1

\* C9: a row has status OK exactly when its count is a non-null integer >= 0,
\* and that count is the one the person's search returned; its count is null
\* exactly when its status is ERROR, INCOMPLETE or NO_MASTER_RECORD; an ERROR
\* row belongs to a search that returned the sentinel, and the sentinel is
\* never stored as a count.
C9_StatusMatchesCount ==
    \A k \in DOMAIN results :
        LET r == results[k]
            count == r.cantidadDeResultados
            searches == CallsFor("search", r.idPersona)
        IN  /\ r.estadoTransaccion \in {STATUS_OK, STATUS_ERROR,
                                        STATUS_INCOMPLETE,
                                        STATUS_NO_MASTER_RECORD}
            /\ r.estadoTransaccion = STATUS_OK <=>
                 (count # None /\ Val(count) >= 0)
            /\ r.estadoTransaccion = STATUS_OK =>
                 (searches # {} /\ \A i \in searches : trace[i].out = Val(count))
            /\ count = None <=>
                 r.estadoTransaccion \in {STATUS_ERROR, STATUS_INCOMPLETE,
                                          STATUS_NO_MASTER_RECORD}
            /\ r.estadoTransaccion = STATUS_ERROR =>
                 (searches # {} /\ \A i \in searches : trace[i].out = -1)
            /\ r.estadoTransaccion \in {STATUS_INCOMPLETE,
                                        STATUS_NO_MASTER_RECORD} =>
                 searches = {}
            /\ count # Some(-1)

C9_Witness ==
    /\ \E k \in DOMAIN results :
         /\ results[k].estadoTransaccion = STATUS_OK
         /\ results[k].cantidadDeResultados = Some(30)
    /\ \E k \in DOMAIN results :
         /\ results[k].estadoTransaccion = STATUS_ERROR
         /\ results[k].cantidadDeResultados = None

\* C10: the three sequences returned by categorize_persons are pairwise
\* disjoint, together they hold exactly the input records, each keeps the input
\* order, and a record is in no_master iff it has no master link, in incomplete
\* iff it has one and its address or country is empty or absent, in
\* search_queue otherwise.
InInputOrder(seq) ==
    /\ \A i \in DOMAIN seq : \E k \in DOMAIN all_persons : all_persons[k] = seq[i]
    /\ \A i, j \in DOMAIN seq :
         i < j => \E k, l \in DOMAIN all_persons :
                      k < l /\ all_persons[k] = seq[i] /\ all_persons[l] = seq[j]
Empty(o) == o = None \/ o = Some("")
C10_CategorizePartitions ==
    pc = "prechecks" =>
        /\ Range(search_queue) \cap Range(incomplete) = {}
        /\ Range(search_queue) \cap Range(no_master) = {}
        /\ Range(incomplete) \cap Range(no_master) = {}
        /\ Range(search_queue) \cup Range(incomplete) \cup Range(no_master)
             = Range(all_persons)
        /\ Len(search_queue) + Len(incomplete) + Len(no_master)
             = Len(all_persons)
        /\ InInputOrder(search_queue)
        /\ InInputOrder(incomplete)
        /\ InInputOrder(no_master)
        /\ \A k \in DOMAIN all_persons :
             LET r == all_persons[k]
                 linked == r.idMaestra # None
             IN  /\ r \in Range(no_master) <=> ~linked
                 /\ r \in Range(incomplete) <=>
                      (linked /\ (Empty(r.direccion) \/ Empty(r.pais)))
                 /\ r \in Range(search_queue) <=>
                      (linked /\ ~Empty(r.direccion) /\ ~Empty(r.pais))

C10_Witness ==
    /\ pc = "prechecks"
    /\ Len(all_persons) = 2
    /\ Len(incomplete) = 1
    /\ Len(no_master) = 1
    /\ no_master[1].direccion = Some("Av 1")
    /\ no_master[1].pais = Some("Chile")
    /\ no_master[1].idPersona = 1

\* ---- pre-checks ----
PreChecksDone == Calls("categorize") # {} /\ pc # "prechecks"

\* C11: process_pre_checks builds one record per incomplete and per no-master
\* person and no other: N + M records, each with a null count; the record of
\* an incomplete person has status INCOMPLETE and the person's own country,
\* the record of a no-master person has status NO_MASTER_RECORD and a null
\* country.
C11_PreCheckRecords ==
    /\ \A e \in Calls("insert_bulk") :
         LET rows == trace[e].rows
             n == Len(incomplete)
             m == Len(no_master)
         IN  /\ Len(rows) = n + m
             /\ \A k \in DOMAIN rows : rows[k].cantidadDeResultados = None
             /\ \A k \in 1..n :
                  /\ rows[k].idPersona = incomplete[k].idPersona
                  /\ rows[k].nombrePersona = incomplete[k].nombrePersona
                  /\ rows[k].estadoTransaccion = STATUS_INCOMPLETE
                  /\ rows[k].pais = incomplete[k].pais
             /\ \A k \in 1..m :
                  /\ rows[n + k].idPersona = no_master[k].idPersona
                  /\ rows[n + k].nombrePersona = no_master[k].nombrePersona
                  /\ rows[n + k].estadoTransaccion = STATUS_NO_MASTER_RECORD
                  /\ rows[n + k].pais = None
    /\ (PreChecksDone /\ Len(incomplete) + Len(no_master) > 0) =>
         Calls("insert_bulk") # {}

C11_Witness ==
    /\ PreChecksDone
    /\ Len(incomplete) = 1
    /\ incomplete[1].pais = None
    /\ Len(no_master) = 1
    /\ no_master[1].pais = Some("Chile")
    /\ \E e \in Calls("insert_bulk") :
         /\ Len(trace[e].rows) = 2
         /\ trace[e].rows[2].pais = None

\* C12: process_pre_checks calls the bulk insert at most once in a run: once,
\* with a non-empty batch, when there is an incomplete or no-master person,
\* and not at all when there is none; no call reaches the store without rows.
C12_OneBulkWrite ==
    /\ Cardinality(Calls("insert_bulk")) <= 1
    /\ \A e \in Calls("insert_bulk") :
         /\ trace[e].rows # <<>>
         /\ trace[e].out # NO_WRITE
    /\ PreChecksDone =>
         Cardinality(Calls("insert_bulk"))
           = IF Len(incomplete) + Len(no_master) > 0 THEN 1 ELSE 0

C12_Witness ==
    /\ pc = "done"
    /\ Len(search_queue) = 2
    /\ Calls("search") # {}
    /\ Calls("insert_bulk") = {}

\* ---- who is searched ----
Searchable(person) ==
    person.idMaestra # None /\ ~Empty(person.direccion) /\ ~Empty(person.pais)
NonSearchable == {k \in DOMAIN all_persons : ~Searchable(all_persons[k])}
ExpectedStatus(person) ==
    IF person.idMaestra = None THEN STATUS_NO_MASTER_RECORD
    ELSE STATUS_INCOMPLETE
BrowserCalls == Calls("search") \cup Calls("screenshot") \cup Calls("reset")
SearchedOnlySearchable ==
    \A i \in BrowserCalls :
        \E k \in DOMAIN all_persons :
            /\ all_persons[k].idPersona = trace[i].id
            /\ Searchable(all_persons[k])

\* C13 as stated: search, screenshot and reset are called only for searchable
\* persons, and when a browser session is opened every person without master
\* link or with an empty address or country already has its NO_MASTER_RECORD
\* or INCOMPLETE row in the results table.
C13_PreCheckedBeforeBrowser ==
    /\ SearchedOnlySearchable
    /\ Calls("open") # {} =>
         \A k \in NonSearchable :
             \E r \in DOMAIN preCheckResults :
                 /\ preCheckResults[r].idPersona = all_persons[k].idPersona
                 /\ preCheckResults[r].estadoTransaccion
                      = ExpectedStatus(all_persons[k])

\* C13 amended: search, screenshot and reset are called only for searchable
\* persons; when a browser session is opened, the bulk write carrying the
\* NO_MASTER_RECORD or INCOMPLETE record of every other person has already
\* been issued, and that record is in the results table by then exactly when
\* the bulk write was committed.
C13_PreCheckWrittenBeforeBrowser ==
    /\ SearchedOnlySearchable
    /\ \A o \in Calls("open") :
         \A k \in NonSearchable :
             \E e \in Calls("insert_bulk") :
                 /\ e < o
                 /\ \E j \in DOMAIN trace[e].rows :
                      /\ trace[e].rows[j].idPersona = all_persons[k].idPersona
                      /\ trace[e].rows[j].estadoTransaccion
                           = ExpectedStatus(all_persons[k])
                      /\ trace[e].rows[j].cantidadDeResultados = None
                      /\ trace[e].out = COMMITTED <=>
                           \E r \in DOMAIN preCheckResults :
                               preCheckResults[r] = trace[e].rows[j]

C13_Witness ==
    /\ Calls("open") # {}
    /\ Calls("search") # {}
    /\ \E k \in NonSearchable :
         /\ all_persons[k].idMaestra # None
         /\ \E r \in DOMAIN preCheckResults :
              preCheckResults[r].idPersona = all_persons[k].idPersona

\* C14: when the database connection cannot be established no person is
\* fetched, no result is written, no browser session is opened, no report is
\* generated and disconnect is not called.
ConnectFailed == \E i \in Calls("connect") : trace[i].out = 0
C14_NoRunWithoutConnection ==
    ConnectFailed =>
        /\ Calls("fetch_persons") = {}
        /\ Calls("categorize") = {}
        /\ Calls("insert_bulk") = {}
        /\ Calls("insert_single") = {}
        /\ Calls("open") = {}
        /\ Calls("search") = {}
        /\ Calls("report") = {}
        /\ Calls("disconnect") = {}
        /\ results = <<>>
        /\ report = None
        /\ scraper = "unopened"
        /\ db_manager = "none"
        /\ pc \in {"finally", "done"}

C14_Witness ==
    /\ ConnectFailed
    /\ raised
    /\ pc = "done"

\* C15: close() is idempotent: however often it is called on a session,
\* driver.quit() is invoked at most once, and a call on a session whose open
\* failed does not raise.
C15_CloseIdempotent ==
    /\ Cardinality(Calls("quit")) <= 1
    /\ scraper = "failed" => \A i \in Calls("close") : trace[i].out = 1

\* ---- the search loop ----
\* position of a person in the search queue (0 when absent)
QueuePos(id) ==
    IF \E k \in DOMAIN search_queue : search_queue[k].idPersona = id
    THEN CHOOSE k \in DOMAIN search_queue : search_queue[k].idPersona = id
    ELSE 0

\* C16: when the session was opened, the search phase ends with search_person
\* called exactly once for every person of the search queue, in queue order,
\* whatever failed for earlier persons; and every search that returned the
\* sentinel has left a row with status ERROR for its person.
C16_LoopNeverAborted ==
    (SessionOpened /\ SearchPhaseOver) =>
        /\ \A k \in DOMAIN search_queue :
             Cardinality(CallsFor("search", search_queue[k].idPersona)) = 1
        /\ \A i, j \in Calls("search") :
             i < j => QueuePos(trace[i].id) < QueuePos(trace[j].id)
        /\ \A i \in Calls("search") :
             trace[i].out = -1 =>
                 \E r \in RowsOf(trace[i].id) :
                     results[r].estadoTransaccion = STATUS_ERROR

\* C17: the calls of a run happen in the order connect, fetch, categorize,
\* bulk insert, open, per-person calls, close, report, disconnect, each phase
\* call at most once (so at most one session open); in the loop a search is
\* the first call after the open or follows the reset of the previous person
\* of the queue, the insert follows the search of the same person, the
\* screenshot follows the insert and only when the count is > 0, the reset
\* follows the screenshot, or the insert when the count is not > 0.
PhaseRank(op) ==
    CASE op = "connect" -> 0
      [] op = "fetch_persons" -> 1
      [] op = "categorize" -> 2
      [] op = "insert_bulk" -> 3
      [] op = "open" -> 4
      [] op \in {"search", "insert_single", "screenshot", "reset"} -> 5
      [] op \in {"close", "quit"} -> 6
      [] op = "report" -> 7
      [] op = "disconnect" -> 8
LoopStepInOrder(i) ==
    LET a == trace[i - 1]
        b == trace[i]
    IN  /\ b.op = "search" =>
              \/ a.op = "open" /\ a.out = 1 /\ QueuePos(b.id) = 1
              \/ a.op = "reset" /\ QueuePos(b.id) = QueuePos(a.id) + 1
        /\ b.op = "insert_single" => a.op = "search" /\ a.id = b.id
        /\ b.op = "screenshot" =>
              /\ a.op = "insert_single" /\ a.id = b.id
              /\ trace[i - 2].out > 0
        /\ b.op = "reset" =>
              \/ a.op = "screenshot" /\ a.id = b.id
              \/ /\ a.op = "insert_single" /\ a.id = b.id
                 /\ ~(trace[i - 2].out > 0)
        /\ b.op = "close" => a.op = "reset" /\ QueuePos(a.id) = Len(search_queue)
\* Consecutive calls never go back to an earlier phase (so no two calls do),
\* and a phase call is never followed by the same phase call: with ranks that
\* never decrease, two calls of one phase would have to be consecutive.
PhaseStepInOrder(i) ==
    LET a == trace[i - 1].op
        b == trace[i].op
    IN  /\ PhaseRank(a) <= PhaseRank(b)
        /\ a = b => a \in {"search", "insert_single", "screenshot", "reset"}
C17_PhaseOrder ==
    /\ trace # <<>> => trace[1].op = "connect"
    /\ \A i \in 2..Len(trace) : PhaseStepInOrder(i) /\ LoopStepInOrder(i)

C17_Witness ==
    /\ pc = "done"
    /\ Cardinality(Calls("search")) = 2
    /\ Cardinality(Calls("screenshot")) = 1
    /\ Cardinality(Calls("reset")) = 2
    /\ Calls("close") # {}
    /\ Calls("report") # {}
    /\ Calls("disconnect") # {}

\* C18: search_person, take_screenshot and reset_search_form are called only
\* while the session is open, and the session only moves from unopened to
\* open (or stays without browser when the open fails) and from open to
\* closed: it never leaves closed.
C18_Step ==
    /\ BrowserCalls' # BrowserCalls => (scraper = "open" /\ scraper' = "open")
    /\ scraper' # scraper =>
         <<scraper, scraper'>> \in {<<"unopened", "open">>,
                                    <<"unopened", "failed">>,
                                    <<"open", "closed">>}
C18_BrowserCallsOnlyWhileOpen == [][C18_Step]_vars

C18_Witness ==
    /\ scraper = "closed"
    /\ Cardinality(Calls("search")) = 2
    /\ Calls("screenshot") # {}
    /\ Cardinality(Calls("reset")) = 2

\* ---- storage ----
\* C19: every storage write is all or nothing: a step that commits a bulk
\* insert appends the whole batch to the table, a step that commits a single
\* insert appends that one row, a write that fails leaves the table as it was,
\* and no other step changes the table; rows committed earlier are never
\* removed or altered.
C19_Step ==
    LET e == trace'[Len(trace')]
        wrote == /\ Len(trace') > Len(trace)
                 /\ e.op \in {"insert_bulk", "insert_single"}
    IN  IF wrote /\ e.out = COMMITTED
        THEN IF e.op = "insert_bulk"
             THEN results' = results \o e.rows
             ELSE /\ Len(results') = Len(results) + 1
                  /\ SubSeq(results', 1, Len(results)) = results
                  /\ results'[Len(results')].idPersona = e.id
        ELSE results' = results
C19_WritesAreAtomic == [][C19_Step]_vars

C19_Witness ==
    /\ pc = "done"
    /\ Len(results) = 1
    /\ \E i, j \in Calls("insert_single") :
         /\ i < j
         /\ trace[i].out = COMMITTED
         /\ trace[j].out = ROLLBACK_RAISED
         /\ results[1].idPersona = trace[i].id

\* ---- report ----
IncompleteRows(table) ==
    SelectSeq(table, LAMBDA r : r.estadoTransaccion = STATUS_INCOMPLETE)
ReportColumns(rows) ==
    [k \in DOMAIN rows |->
        [idPersona |-> rows[k].idPersona,
         nombrePersona |-> rows[k].nombrePersona,
         pais |-> rows[k].pais,
         estadoTransaccion |-> rows[k].estadoTransaccion]]
SearchPhaseFrame ==
    PreChecksDone =>
        /\ IncompleteRows(results) = IncompleteRows(preCheckResults)
        /\ Len(preCheckResults) <= Len(results)
        /\ \A k \in (Len(preCheckResults) + 1)..Len(results) :
             results[k].estadoTransaccion \in {STATUS_OK, STATUS_ERROR}

\* C20 as stated: the search phase adds only OK and ERROR rows, and the
\* records fetch_incomplete_records_for_report reads are exactly the
\* INCOMPLETE rows that were in the table when the pre-checks ended.
C20_ReportReadsPreCheckIncompletes ==
    /\ SearchPhaseFrame
    /\ \A e \in Calls("report") :
         trace[e].rows = ReportColumns(IncompleteRows(preCheckResults))

\* C20 amended: the search phase adds only OK and ERROR rows, and the records
\* fetch_incomplete_records_for_report returns are exactly the INCOMPLETE rows
\* that were in the table when the pre-checks ended whenever its query
\* succeeds; when the query raises, it returns no record.
C20_ReportReadsPreCheckIncompletesIfQueryOk ==
    /\ SearchPhaseFrame
    /\ \A e \in Calls("report") :
         trace[e].rows = IF trace[e].out = 1
                         THEN ReportColumns(IncompleteRows(preCheckResults))
                         ELSE <<>>

C20_Witness ==
    /\ \E e \in Calls("report") : trace[e].out = 1 /\ trace[e].rows # <<>>
    /\ \E k \in DOMAIN results : results[k].estadoTransaccion = STATUS_ERROR
    /\ report # None

\* the calls that reach the database
StorageOps ==
    {"connect", "fetch_persons", "insert_bulk", "insert_single", "report"}

\* C21: in a run whose connection was established, disconnect() is called at
\* most once while the run goes on and exactly once when main() has ended,
\* whatever the exit path (normal end, early return on an empty person list,
\* exception caught by main), and no storage operation is called after it.
C21_DisconnectExactlyOnce ==
    Connected =>
        /\ Cardinality(Calls("disconnect")) <= 1
        /\ pc = "done" => Cardinality(Calls("disconnect")) = 1
        /\ \A d \in Calls("disconnect") :
             \A i \in DOMAIN trace :
                 trace[i].op \in StorageOps => i < d

\* an exception left the search loop with the session open, and main() ended
C21_Witness ==
    /\ pc = "done"
    /\ raised
    /\ \E i \in Calls("insert_single") : trace[i].out = ROLLBACK_RAISED
    /\ Calls("disconnect") # {}

====
